---- MODULE Spec2Model ----
(***************************************************************************)
(* A model of scraper.py: the batch loop of main, ThreadScraper (one       *)
(* object shared by every URL of the batch), the traversal loop of         *)
(* _extract_tweets with its second media pass, the media resolver _media   *)
(* and the response observer _capture_video that fills the video pool      *)
(* while the traversal is suspended at an await.                           *)
(*                                                                         *)
(* Python values: None is the string "None" where the other values are     *)
(* strings, 0 for an identifier or a poster, -1 for a bitrate.  A dict is  *)
(* a record, the empty dict is << >>.                                      *)
(***************************************************************************)
EXTENDS Integers, Sequences, FiniteSets, TLC

None == "None"

STALL_LIMIT == 3
TAIL_LIMIT == 1

\* Bounds of the model.
MaxPool == 2        \* URLs the observer appends for one asset
MaxTail == 5        \* author items of the "n items and a trailing reply" documents
MaxRaw == 4         \* characters of an argument of clean_count
MaxChildren == 3    \* child nodes of a tweetText element

\* A call's outcome: it returned value, or it raised.
Ret(value) == [raised |-> FALSE, value |-> value]
Raise == [raised |-> TRUE, value |-> << >>]

-----------------------------------------------------------------------------
(* The data helpers.  A str is the sequence of its characters.             *)

\* None where a str is expected.
NoStr == <<"None">>

Digits == {"1", "2", "3"}
Whitespace == {" ", "\t"}
Chars == Digits \cup {",", ".", "K", "M", "x", " "}

\* The strs of at most n characters.
Strs(n) == UNION { [1..k -> Chars] : k \in 0..n }

\* s.replace(c, "")
Replace(s, c) == SelectSeq(s, LAMBDA ch : ch # c)

RECURSIVE LStrip(_)
LStrip(s) == IF s # << >> /\ Head(s) \in Whitespace THEN LStrip(Tail(s)) ELSE s

RECURSIVE RStrip(_)
RStrip(s) == IF s # << >> /\ s[Len(s)] \in Whitespace THEN RStrip(SubSeq(s, 1, Len(s) - 1)) ELSE s

\* s.strip()
Strip(s) == RStrip(LStrip(s))

\* s.endswith(c)
EndsWith(s, c) == s # << >> /\ s[Len(s)] = c

IsDigits(s) == s # << >> /\ \A i \in DOMAIN s : s[i] \in Digits

DigitValue(c) == CASE c = "1" -> 1 [] c = "2" -> 2 [] c = "3" -> 3

RECURSIVE DecimalValue(_)
\* The number a str of digits writes.
DecimalValue(s) ==
    IF s = << >> THEN 0
    ELSE 10 * DecimalValue(SubSeq(s, 1, Len(s) - 1)) + DigitValue(s[Len(s)])

\* int(s): the surrounding whitespace is ignored; anything but digits is a
\* ValueError.
int(s) == IF IsDigits(Strip(s)) THEN Ret(DecimalValue(Strip(s))) ELSE Raise

\* float(s) of a str without ".": as int(s).
float(s) == int(s)

\* clean_count(raw)
clean_count(raw) ==
    IF raw = NoStr THEN Ret(0)
    ELSE LET s == Strip(Replace(Replace(raw, ","), "."))
             body == SubSeq(s, 1, Len(s) - 1)                   \* raw[:-1]
         IN  IF EndsWith(s, "K")
             THEN (IF float(body).raised THEN Raise ELSE Ret(float(body).value * 1000))
             ELSE IF EndsWith(s, "M")
             THEN (IF float(body).raised THEN Raise ELSE Ret(float(body).value * 1000000))
             ELSE IF int(s).raised THEN Ret(0)                  \* except ValueError
             ELSE int(s)

\* normalise_whitespace(txt): " ".join(txt.split())
RECURSIVE Split(_, _)
\* txt.split() continued: cur is the word under way.
Split(txt, cur) ==
    IF txt = << >> THEN (IF cur = << >> THEN << >> ELSE <<cur>>)
    ELSE IF Head(txt) \in Whitespace
         THEN (IF cur = << >> THEN << >> ELSE <<cur>>) \o Split(Tail(txt), << >>)
         ELSE Split(Tail(txt), Append(cur, Head(txt)))

RECURSIVE Join(_)
\* " ".join(words)
Join(words) ==
    IF words = << >> THEN << >>
    ELSE IF Len(words) = 1 THEN words[1]
    ELSE words[1] \o <<" ">> \o Join(Tail(words))

\* Mutant of normalise_whitespace: the text as collected.
NotNormalised(txt) == txt

normalise_whitespace(txt) == Join(Split(txt, << >>))

\* A DOM node under a tweetText element.  kind: "text" (a text node, txt its
\* textContent), "img" (txt its alt), "el" (another element), "none" (the
\* element was not found).
Dom(kind, txt, children) == [kind |-> kind, txt |-> txt, children |-> children]

NoEl == Dom("none", << >>, << >>)

\* What the counter of a node offers _raw_count: the text of the span of
\* its transition container, the text of its first span, its aria-label
\* (NoStr: there is none).
Counter(container, span, label) == [container |-> container, span |-> span, label |-> label]

NoCounter == Counter(NoStr, NoStr, NoStr)

\* What a node offers _raw_views: the text of the span of the analytics
\* link's container; the number before "views" in the link's aria-label; the
\* text of the viewCount span; the number the sibling scan finds (NoStr: none).
Views(container, label, span, sibling) ==
    [container |-> container, label |-> label, span |-> span, sibling |-> sibling]

NoViews == Views(NoStr, NoStr, NoStr, NoStr)

RECURSIVE NumberRun(_)
\* The longest prefix of s made of digits, "." and ",".
NumberRun(s) ==
    IF s # << >> /\ Head(s) \in Digits \cup {".", ","}
    THEN <<Head(s)>> \o NumberRun(Tail(s)) ELSE << >>

RECURSIVE CountToken(_)
\* re.search(r"([0-9][0-9.,]*[KM]?)", label, re.I): group(1), NoStr when
\* nothing matches.
CountToken(label) ==
    IF label = << >> THEN NoStr
    ELSE IF Head(label) \in Digits
    THEN LET run == NumberRun(label)
             rest == SubSeq(label, Len(run) + 1, Len(label))
         IN  IF rest # << >> /\ Head(rest) \in {"K", "M"} THEN Append(run, Head(rest)) ELSE run
    ELSE CountToken(Tail(label))

\* _raw_count(art, testid), c the counter of the node for testid.
RawCount(c) ==
    IF c.container # NoStr THEN Strip(c.container)
    ELSE IF c.span # NoStr THEN Strip(c.span)
    ELSE IF c.label # NoStr /\ CountToken(c.label) # NoStr THEN Strip(CountToken(c.label))
    ELSE << >>

\* _raw_views(art)
RawViews(v) ==
    IF v.container # NoStr THEN Strip(v.container)
    ELSE IF v.label # NoStr THEN Strip(v.label)
    ELSE IF v.span # NoStr THEN Strip(v.span)
    ELSE IF v.sibling # NoStr /\ v.sibling # << >> THEN Strip(v.sibling)
    ELSE << >>

RECURSIVE Collect(_)
\* collect(n) of _text_with_emojis, over the child nodes of n.
Collect(children) ==
    IF children = << >> THEN << >>
    ELSE LET ch == Head(children)
         IN  (IF ch.kind = "text" THEN ch.txt
              ELSE IF ch.kind = "img" /\ ch.txt # << >> THEN ch.txt
              ELSE Collect(ch.children))
             \o Collect(Tail(children))

\* _text_with_emojis(text_el)
text_with_emojis(el) ==
    IF el.kind = "none" THEN << >> ELSE normalise_whitespace(Collect(el.children))

\* A str, with its Python type, as a dict holds it (an int is of type "int").
PyStr(s) == [type |-> "str", value |-> s]

-----------------------------------------------------------------------------
(* The render surface: hrefs, nodes, documents.                            *)

\* An href "/<pre...>/status/<id>": the path segments before "status" and the
\* digits after it (0: no digits follow "/status/").
Href(pre, id) == [present |-> TRUE, pre |-> pre, id |-> id]

\* query_selector('a[href*="/status/"]') found nothing.
NoHref == [present |-> FALSE, pre |-> << >>, id |-> 0]

\* tid_match = TWEET_URL_RE.search(tweet_url): the digits, 0 when no match.
TweetId(href) == href.id

\* tweet_url.strip("/").split("/")
Parts(href) == href.pre \o <<"status">> \o (IF href.id # 0 THEN <<"id">> ELSE << >>)

\* handle = tweet_url.strip("/").split("/")[0]
Handle(href) == Parts(href)[1]

\* An article node.  href: its first a[href*="/status/"] (NoHref: it has none);
\* links: the identifiers of the other /status/ links inside it (a quoted or
\* linked item); images: the src of its twimg.com/media images; video_el:
\* whether it holds a videoComponent video; poster: the asset identifier in
\* the poster URL (0: no poster); attr_vids: the identifiers _video_ids_in_art
\* finds in its attributes.
Node(href, links, images, video_el, poster, attr_vids) ==
    [href |-> href, links |-> links, images |-> images, video_el |-> video_el,
     poster |-> poster, attr_vids |-> attr_vids, datetime |-> None,
     text_el |-> NoEl, like |-> NoCounter, retweet |-> NoCounter,
     reply |-> NoCounter, views |-> NoViews]

PlainNode(h, id) == Node(Href(<<h>>, id), {}, << >>, FALSE, 0, << >>)

\* A thread of two items of alice that show the same video; the second also
\* carries an image and links to the first.
ThreadA ==
    << Node(Href(<<"alice">>, 1), {}, << >>, TRUE, 1, <<1>>),
       Node(Href(<<"alice">>, 2), {1}, <<"img2">>, TRUE, 1, <<1>>) >>

\* A thread of one item of alice, with a time, a text "a <emoji> a", 1.2K
\* likes shown, 3 reposts in a label only, no reply counter, and 1M views.
ThreadC ==
    << [PlainNode("alice", 6) EXCEPT
           !.datetime = "2024-05-01T10:00:00.000Z",
           !.text_el = Dom("el", << >>, << Dom("text", <<"a", " ">>, << >>),
                                          Dom("img", <<"E">>, << >>),
                                          Dom("text", <<" ", "a">>, << >>) >>),
           !.like = Counter(<<"1", ".", "2", "K">>, NoStr, NoStr),
           !.retweet = Counter(NoStr, NoStr, <<"3", " ", "x">>),
           !.views = Views(<<"1", "M">>, NoStr, NoStr, NoStr)] >>

\* bob's thread, with a reply of alice in it.
ThreadB == << PlainNode("bob", 4), PlainNode("alice", 5) >>

\* A document whose first node has no /status/ link, before an item of alice.
ThreadN == << Node(NoHref, {}, << >>, FALSE, 0, << >>), PlainNode("alice", 7) >>

\* A document whose first node links to "/status/" and nothing more.
ThreadU == << Node(Href(<< >>, 0), {}, << >>, FALSE, 0, << >>), PlainNode("alice", 9) >>

\* A document whose only node has the permalink "/status/8", with no handle
\* before "status".
ThreadS == << Node(Href(<< >>, 8), {}, << >>, FALSE, 0, << >>) >>

\* A thread of one item of alice that shows video asset 2.
ThreadV == << Node(Href(<<"alice">>, 31), {}, << >>, TRUE, 2, << >>) >>

\* An item of alice with an image, before an item of hers whose identifier
\* is the start of the first one's.
ThreadP == << Node(Href(<<"alice">>, 31), {}, <<"img31">>, FALSE, 0, << >>),
             PlainNode("alice", 3) >>

\* Two items of alice with a reply of bob between them.
ThreadT == << PlainNode("alice", 21), PlainNode("bob", 22), PlainNode("alice", 23) >>

\* n items of alice followed by one reply of bob.
TailDoc(n) ==
    [i \in 1..(n + 1) |-> IF i <= n THEN PlainNode("alice", 10 + i)
                                    ELSE PlainNode("bob", 10 + i)]

\* A document: its nodes in document order, whether the surface virtualizes
\* it (materializes only some of its nodes at a time), and the "Show replies" /
\* "Show more replies" buttons it shows when loaded.
Doc(nodes, virtual) == [nodes |-> nodes, virtual |-> virtual, controls |-> 1]

\* The document d with n such buttons.
WithControls(d, n) == [d EXCEPT !.controls = n]

\* The assets the nodes of a document show.
RECURSIVE ShownVids(_)
ShownVids(nodes) ==
    IF nodes = << >> THEN {}
    ELSE (IF Head(nodes).video_el THEN {Head(nodes).poster} \cup
                                       { Head(nodes).attr_vids[i] : i \in DOMAIN Head(nodes).attr_vids }
          ELSE {}) \cup ShownVids(Tail(nodes))

\* The batches of URLs main is run on.
Batches ==
    { << Doc(ThreadA, TRUE) >>,
      << Doc(ThreadC, TRUE), Doc(ThreadB, TRUE) >>,
      << Doc(ThreadN, FALSE), Doc(ThreadU, FALSE), Doc(ThreadS, FALSE) >>,
      << WithControls(Doc(ThreadT, TRUE), 2) >>,
      << Doc(ThreadV, FALSE), Doc(ThreadC, FALSE) >>,
      << Doc(ThreadP, FALSE) >> }
    \cup { << Doc(TailDoc(n), FALSE) >> : n \in 1..MaxTail }

RECURSIVE SubSeqs(_)
\* The order-preserving subsequences of s.
SubSeqs(s) ==
    IF s = << >> THEN { << >> }
    ELSE LET rest == SubSeqs(Tail(s))
         IN  rest \cup { <<Head(s)>> \o r : r \in rest }

\* page.query_selector_all(TWEET_ARTICLE): what is materialized now.
Materialized(d) == IF d.virtual THEN SubSeqs(d.nodes) ELSE { d.nodes }

-----------------------------------------------------------------------------
(* Video URLs and what the network answers for them.                       *)

\* A URL under video.twimg.com of asset vid.  ext: ".m3u8" or ".mp4"; res: the
\* /<width>x<height>/ token of its path (None: it has none); get: what the GET
\* of a manifest gives ("200", "404", "exc": it raises or times out); streams:
\* the #EXT-X-STREAM-INF lines of the manifest body, each with its BANDWIDTH
\* (-1: none) and RESOLUTION; head: "ok" or "exc", the HEAD request fails
\* (it errors, or the server never answers); size: the content-length the
\* HEAD reports.  An audio-only segment has "/aud/", "mp4a" or "m4s" in its
\* name: ext is then ".mp4/aud".
Url(name, vid, ext, res, get, streams, head, size) ==
    [name |-> name, vid |-> vid, ext |-> ext, res |-> res, get |-> get,
     streams |-> streams, head |-> head, size |-> size]

M_OK   == Url("pl/1/a.m3u8", 1, ".m3u8", None, "200",
              <<[bw |-> 832000, res |-> "480x270"]>>, "ok", 0)
M_DEAD == Url("pl/1/b.m3u8", 1, ".m3u8", None, "exc", << >>, "ok", 0)
P_OK   == Url("vid/1/480x270/a.mp4", 1, ".mp4", "480x270", "200", << >>, "ok", 320000)
P_DEAD == Url("vid/1/480x270/b.mp4", 1, ".mp4", "480x270", "200", << >>, "exc", 0)
\* The manifest of asset 2: it answers 200 with a body that names no stream.
M_BARE == Url("pl/2/c.m3u8", 2, ".m3u8", None, "200", << >>, "ok", 0)
\* An audio-only segment of asset 2.
A_SEG  == Url("vid/2/aud/a.mp4", 2, ".mp4/aud", None, "200", << >>, "ok", 64000)

VideoUrls == { M_OK, M_DEAD, P_OK, P_DEAD, M_BARE, A_SEG }
Vids == { u.vid : u \in VideoUrls }

\* A network response as _capture_video sees it.
Response(url, host, status, vid) == [url |-> url, host |-> host, status |-> status, vid |-> vid]

\* Every URL answered 200; a direct file also answered 206 (a range of it), a
\* manifest also 404; a URL of another host; a URL with no identifier in
\* its path.
Responses ==
    { Response(u, "video.twimg.com", 200, u.vid) : u \in VideoUrls }
    \cup { Response(P_OK, "video.twimg.com", 206, P_OK.vid),
           Response(M_OK, "video.twimg.com", 404, M_OK.vid),
           Response(P_OK, "pbs.twimg.com", 200, P_OK.vid),
           Response(P_OK, "video.twimg.com", 200, 0) }

\* Python's round(n / d) for n >= 0, d > 0: to nearest, ties to even.
Round(n, d) ==
    LET q == n \div d
        r == n % d
    IN  IF 2 * r < d THEN q
        ELSE IF 2 * r > d THEN q + 1
        ELSE IF q % 2 = 0 THEN q ELSE q + 1

Variant(bitrate, resolution, url) ==
    [bitrate |-> bitrate, resolution |-> resolution, url |-> url.name]

\* variant_from_mp4(url): one variant from the HEAD request's content-length.
variant_from_mp4(url) ==
    IF url.head = "exc" THEN Raise
    ELSE Ret(<< Variant(IF url.size # 0 THEN Round(url.size, 128000) * 1000 ELSE -1,
                        url.res, url) >>)

\* The variants of the #EXT-X-STREAM-INF lines of a manifest body.
StreamVariants(url) ==
    [i \in 1..Len(url.streams) |->
        Variant(url.streams[i].bw, url.streams[i].res, url)]

\* fetch_video_variants(m3u8_url)
fetch_video_variants(url) ==
    IF url.ext = ".mp4" THEN variant_from_mp4(url)
    ELSE IF url.get = "exc" THEN Raise
    ELSE IF url.get # "200" THEN variant_from_mp4(url)
    ELSE IF StreamVariants(url) # << >> THEN Ret(StreamVariants(url))
    ELSE Ret(<< Variant(-1, None, url) >>)

\* Mutant of Gathered: one manifest fetch that raises discards the whole batch.
GatheredOrNothing(urls) ==
    IF \E i \in DOMAIN urls : fetch_video_variants(urls[i]).raised THEN << >>
    ELSE IF urls = << >> THEN << >>
    ELSE fetch_video_variants(urls[1]).value
         \o (IF Len(urls) > 1 THEN fetch_video_variants(urls[2]).value ELSE << >>)

RECURSIVE Gathered(_)
\* The variants of the fetches that returned a list, in order: the loop over
\* asyncio.gather(..., return_exceptions=True).
Gathered(urls) ==
    IF urls = << >> THEN << >>
    ELSE LET r == fetch_video_variants(Head(urls))
         IN  (IF r.raised THEN << >> ELSE r.value) \o Gathered(Tail(urls))

RECURSIVE Direct(_)
\* for u in mp4s: variants.extend(await self.fetch_video_variants(u)): the
\* first fetch that raises ends the loop and the call.
Direct(urls) ==
    IF urls = << >> THEN Ret(<< >>)
    ELSE LET r == fetch_video_variants(Head(urls))
             rest == Direct(Tail(urls))
         IN  IF r.raised \/ rest.raised THEN Raise ELSE Ret(r.value \o rest.value)

IsManifest(u) == u.ext = ".m3u8"
IsDirect(u) == u.ext = ".mp4"

\* The identifier of the video of a node: from the poster, else the first one
\* _video_ids_in_art finds (0: none).
VidOf(art) ==
    IF art.poster # 0 THEN art.poster
    ELSE IF art.attr_vids # << >> THEN art.attr_vids[1] ELSE 0

\* Mutant of Unassigned: the assigned identifiers are not consulted.
UnassignedAlways(vid, assigned) == vid # 0

\* vid_id and vid_id not in self.assigned_video_ids
Unassigned(vid, assigned) == vid # 0 /\ vid \notin assigned

\* The direct-file fallback of _media: the mp4 URLs of the pool entry.
DirectUrls(pool_list) == SelectSeq(pool_list, IsDirect)

\* if pool: self.assigned_video_ids.add(vid_id)
Assign(vid, pool_list, assigned) ==
    IF pool_list # << >> THEN assigned \cup {vid} ELSE assigned

\* The media dict: "images" when there are images, "video" when there are variants.
MediaObj(images, poster, variants) ==
    LET block == [thumbnail |-> poster, variants |-> variants]
    IN  IF images # << >> /\ variants # << >> THEN [images |-> images, video |-> block]
        ELSE IF images # << >> THEN [images |-> images]
        ELSE IF variants # << >> THEN [video |-> block]
        ELSE << >>

\* _media(art): the media dict and the new assigned_video_ids, unless a
\* direct-file request raised.
Media(art, pool, assigned) ==
    LET vid == VidOf(art)
        pool_list == IF vid \in DOMAIN pool THEN pool[vid] ELSE << >>
        m3u8s == SelectSeq(pool_list, IsManifest)
        mp4s == DirectUrls(pool_list)
        direct == Direct(mp4s)
    IN  IF ~art.video_el THEN Ret([media |-> MediaObj(art.images, 0, << >>), assigned |-> assigned])
        ELSE IF ~Unassigned(vid, assigned)
             THEN Ret([media |-> MediaObj(art.images, art.poster, << >>), assigned |-> assigned])
        ELSE IF direct.raised THEN Raise
        ELSE Ret([media |-> MediaObj(art.images, art.poster, Gathered(m3u8s) \o direct.value),
                  assigned |-> Assign(vid, pool_list, assigned)])

\* not media_obj / not tweet_obj.get("media")
Empty(media) == DOMAIN media = {}

\* Mutant of NotAuthor: every node passes for the author's.
NotAuthorNever(href, author) == FALSE

\* handle != self.author_handle
NotAuthor(href, author) == Handle(href) # author

\* _parse_tweet(art): the tweet dict (found is FALSE for None: the node is not
\* the author's) and the new assigned_video_ids, unless _media raised.
ParseTweet(art, author, pool, assigned) ==
    LET m == Media(art, pool, assigned)
    IN  IF ~art.href.present \/ TweetId(art.href) = 0 \/ NotAuthor(art.href, author)
        THEN Ret([found |-> FALSE, tweet |-> << >>, assigned |-> assigned])
        ELSE IF m.raised THEN Raise
        ELSE Ret([found |-> TRUE,
                  tweet |-> [tweet_id |-> TweetId(art.href),
                             datetime |-> art.datetime,
                             tweet |-> text_with_emojis(art.text_el),
                             likes |-> PyStr(RawCount(art.like)),
                             retweets |-> PyStr(RawCount(art.retweet)),
                             replies |-> PyStr(RawCount(art.reply)),
                             views |-> PyStr(RawViews(art.views)),
                             media |-> m.value.media],
                  assigned |-> m.value.assigned])

-----------------------------------------------------------------------------
(* The state.                                                              *)

VARIABLES
    batch,                  \* args.urls: the document each URL leads to
    url_i,                  \* main: the index of the URL being scraped
    results,                \* main: results
    log,                    \* main: what it printed, "Scraping" and "Error scraping"
    pc,                     \* where the run is: "main", "pass", "node", "second", "finished",
                            \* or "blocked" in a call that does not return
    author_handle,          \* ThreadScraper.author_handle
    show_more_replies,      \* ThreadScraper.show_more_replies
    video_pool,             \* ThreadScraper.video_pool
    assigned_video_ids,     \* ThreadScraper.assigned_video_ids
    tweets,                 \* _extract_tweets: tweets
    seen_ids,               \* _extract_tweets: seen_ids
    pending_media,          \* _extract_tweets: pending_media
    stall_count,            \* _extract_tweets: stall_count
    after_thread_tail,      \* _extract_tweets: after_thread_tail
    new_this_pass,          \* _extract_tweets: new_this_pass
    articles,               \* _extract_tweets: articles of the current pass
    art_i,                  \* _extract_tweets: the position of "for art in articles"
    pend_i,                 \* _extract_tweets: the position of "for tid, idx in pending_media"
    passes,                 \* history: the scan passes begun in this traversal
    first_handle,           \* history: the handle of the first node scanned in this traversal
    scanned_early,          \* history: the items admitted while the pool had no URL of their asset
    pooled_at_exit,         \* history: the assets the pool had URLs of when the scan loop ended
    scroll_steps,           \* history: the calls of _scroll_down made in this traversal
    expand_controls,        \* the page: the "Show replies" buttons it shows
    raw,                    \* clean_count: its argument
    count,                  \* clean_count: its outcome
    text_el,                \* _text_with_emojis: its argument
    text                    \* _text_with_emojis: its result

scraper == <<author_handle, show_more_replies, video_pool, assigned_video_ids>>
locals == <<tweets, seen_ids, pending_media, stall_count, after_thread_tail,
            new_this_pass, articles, art_i, pend_i>>
history == <<passes, first_handle, scanned_early, pooled_at_exit, scroll_steps>>
helpers == <<raw, count, text_el, text>>
vars == <<batch, url_i, results, log, pc, scraper, locals, history, expand_controls, helpers>>

\* ThreadScraper.__init__ and the start of main.
Construction ==
    /\ url_i = 1
    /\ results = << >>
    /\ log = << >>
    /\ author_handle = None
    /\ show_more_replies = FALSE
    /\ video_pool = [v \in Vids |-> << >>]
    /\ assigned_video_ids = {}
    /\ tweets = << >>
    /\ seen_ids = {}
    /\ pending_media = << >>
    /\ stall_count = 0
    /\ after_thread_tail = 0
    /\ new_this_pass = 0
    /\ articles = << >>
    /\ art_i = 1
    /\ pend_i = 1
    /\ passes = 0
    /\ first_handle = None
    /\ scanned_early = {}
    /\ pooled_at_exit = {}
    /\ scroll_steps = 0
    /\ expand_controls = 0

\* No helper is under study.
NoHelperCall ==
    /\ raw = NoStr
    /\ count = Ret(0)
    /\ text_el = NoEl
    /\ text = << >>

\* main, run on a batch of URLs.
Init ==
    /\ batch \in Batches
    /\ pc = "main"
    /\ Construction
    /\ NoHelperCall

\* The locals of _extract_tweets as it starts (and, in the model, once it is over).
FreshLocals ==
    /\ tweets' = << >>
    /\ seen_ids' = {}
    /\ pending_media' = << >>
    /\ stall_count' = 0
    /\ after_thread_tail' = 0
    /\ new_this_pass' = 0
    /\ articles' = << >>
    /\ art_i' = 1
    /\ pend_i' = 1
    /\ passes' = 0
    /\ first_handle' = None
    /\ scanned_early' = {}
    /\ pooled_at_exit' = {}
    /\ scroll_steps' = 0

\* Mutant of Caught: the exception leaves the loop over the URLs.
CaughtEndsBatch(printed) ==
    /\ log' = Append(printed, <<"Error scraping", url_i>>)
    /\ url_i' = Len(batch) + 1
    /\ pc' = "main"
    /\ expand_controls' = 0
    /\ UNCHANGED results
    /\ FreshLocals

\* except Exception as e: print("Error scraping", url, ...), then the next URL
\* (the page of this one is left).
Caught(printed) ==
    /\ log' = Append(printed, <<"Error scraping", url_i>>)
    /\ url_i' = url_i + 1
    /\ pc' = "main"
    /\ expand_controls' = 0
    /\ UNCHANGED results
    /\ FreshLocals

\* requests.head(url, allow_redirects=True) has no timeout and is not
\* awaited: when the server never answers, the call never returns and the
\* event loop runs nothing else.
Blocked ==
    /\ pc' = "blocked"
    /\ UNCHANGED <<url_i, results, log, locals, history, expand_controls>>

\* main's loop body up to the call of _extract_tweets: print, page.goto and
\* the waits of scrape, which may raise.
ScrapeBegin ==
    /\ pc = "main"
    /\ url_i <= Len(batch)
    /\ \E loaded \in BOOLEAN :
          IF loaded
          THEN /\ log' = Append(log, <<"Scraping", url_i>>)
               /\ pc' = "pass"
               /\ expand_controls' = batch[url_i].controls
               /\ FreshLocals
               /\ UNCHANGED <<url_i, results>>
          ELSE Caught(Append(log, <<"Scraping", url_i>>))
    /\ UNCHANGED <<batch, scraper, helpers>>

\* _click_show_replies(): whether it clicked; the button is "absent", or the
\* click "fails", or it is "clicked".
ClickShowReplies(btn) == btn = "clicked"

\* What the locator of _click_show_replies can meet on a page that shows
\* controls buttons, when it is looked for.
Buttons(controls, looked_for) ==
    IF looked_for /\ controls > 0 THEN {"fails", "clicked"} ELSE {"absent"}

\* btn = self.page.locator(...).first; btn.click(): the first button is
\* expanded, the others stay.
Expanded(controls, click) == IF click THEN controls - 1 ELSE controls

\* stall_count after the "no articles" branch.
StallAfterEmpty(stall) == stall + 1

\* Mutant of StallAfterPass: a pass that admits nothing leaves the counter alone.
StallNeverCounts(stall, new) == IF new = 0 THEN stall ELSE 0

\* Mutant of StallAfterPass: the counter is not reset by a pass that admits.
StallNeverReset(stall, new) == stall + 1

\* stall_count after a full pass.
StallAfterPass(stall, new) == IF new = 0 THEN stall + 1 ELSE 0

\* The assets the pool holds URLs of.
Pooled == { v \in DOMAIN video_pool : video_pool[v] # << >> }

\* Mutant of ResolveAuthor: the handle taken again from the first node of every pass.
ResolveAuthorEveryPass(author, first) == Parts(first)[1]

\* "determine author once": the handle after a pass whose first node has the
\* permalink first.
ResolveAuthor(author, first) == IF author # None THEN author ELSE Parts(first)[1]

\* The two "return tweets" of "determine author once".
NoAuthor(author, first) == author = None /\ (~first.present \/ Len(Parts(first)) < 2)

\* The start of a pass of "while extracting_tweets": the query, the "no
\* articles" branch, the expansion click and "determine author once".
QueryArticles ==
    /\ pc = "pass"
    /\ passes' = passes + 1
    /\ \E arts \in Materialized(batch[url_i]), btn \in {"absent", "fails", "clicked"} :
          IF arts = << >>
          THEN /\ btn = "absent"
               /\ UNCHANGED expand_controls
               /\ stall_count' = StallAfterEmpty(stall_count)
               /\ pc' = IF stall_count' >= STALL_LIMIT THEN "second" ELSE "pass"
               /\ pooled_at_exit' = IF pc' = "second" THEN Pooled ELSE pooled_at_exit
               /\ UNCHANGED <<scraper, tweets, seen_ids, pending_media, after_thread_tail,
                              new_this_pass, articles, art_i, pend_i, first_handle,
                              scanned_early>>
          ELSE LET click == ~show_more_replies /\ ClickShowReplies(btn)
                   first == arts[1].href
               IN  /\ btn \in Buttons(expand_controls, ~show_more_replies)
                   /\ show_more_replies' = (show_more_replies \/ click)
                   /\ expand_controls' = Expanded(expand_controls, click)
                   /\ stall_count' = IF click THEN 0 ELSE stall_count
                   /\ first_handle' = IF first_handle # None THEN first_handle
                                      ELSE IF first.present THEN Handle(first) ELSE ""
                   /\ IF NoAuthor(author_handle, first)
                      THEN \* return tweets
                           /\ pend_i' = Len(pending_media) + 1
                           /\ pc' = "second"
                           /\ pooled_at_exit' = Pooled
                           /\ UNCHANGED <<author_handle, articles, art_i, new_this_pass>>
                      ELSE /\ author_handle' = ResolveAuthor(author_handle, first)
                           /\ articles' = arts
                           /\ art_i' = 1
                           /\ new_this_pass' = 0
                           /\ pc' = "node"
                           /\ UNCHANGED <<pend_i, pooled_at_exit>>
                   /\ UNCHANGED <<video_pool, assigned_video_ids, tweets, seen_ids,
                                  pending_media, after_thread_tail, scanned_early>>
    /\ UNCHANGED <<batch, url_i, results, log, scroll_steps, helpers>>

\* Mutant of Seen: the dedup test forgotten.
SeenNever(tweet_id, seen) == FALSE

\* if tweet_id in seen_ids: continue
Seen(tweet_id, seen) == tweet_id \in seen

\* seen_ids.add(tweet_id)
MarkSeen(tweet_id, seen) == seen \cup {tweet_id}

\* Mutant of Admit: the new item goes in front of the list.
AdmitInFront(tws, tweet_obj) == <<tweet_obj>> \o tws

\* tweets.append(tweet_obj)
Admit(tws, tweet_obj) == Append(tws, tweet_obj)

\* One iteration of "for art in articles".
ProcessArticle ==
    /\ pc = "node"
    /\ art_i <= Len(articles)
    /\ LET art == articles[art_i]
           tweet_id == TweetId(art.href)
           parsed == ParseTweet(art, author_handle, video_pool, assigned_video_ids)
           skip == /\ art_i' = art_i + 1
                   /\ UNCHANGED <<url_i, results, log, pc, assigned_video_ids, tweets, seen_ids,
                                  pending_media, stall_count, after_thread_tail,
                                  new_this_pass, articles, pend_i, history, expand_controls>>
       IN  IF ~art.href.present \/ tweet_id = 0 \/ Seen(tweet_id, seen_ids)
           THEN skip
           ELSE IF NotAuthor(art.href, author_handle)
           THEN /\ after_thread_tail' = after_thread_tail + 1
                /\ art_i' = IF tweets # << >> /\ after_thread_tail' >= TAIL_LIMIT
                            THEN Len(articles) + 1     \* break
                            ELSE art_i + 1             \* continue
                /\ UNCHANGED <<url_i, results, log, pc, assigned_video_ids, tweets, seen_ids,
                               pending_media, stall_count, new_this_pass, articles, pend_i,
                               history, expand_controls>>
           ELSE IF parsed.raised
           THEN /\ Caught(log) \/ Blocked
                /\ UNCHANGED assigned_video_ids
           ELSE /\ after_thread_tail' = 0
                /\ assigned_video_ids' = parsed.value.assigned
                /\ art_i' = art_i + 1
                /\ IF parsed.value.found
                   THEN /\ tweets' = Admit(tweets, parsed.value.tweet)
                        /\ seen_ids' = MarkSeen(tweet_id, seen_ids)
                        /\ new_this_pass' = new_this_pass + 1
                        /\ pending_media' =
                              IF Empty(parsed.value.tweet.media)
                              THEN Append(pending_media, <<tweet_id, Len(tweets) + 1>>)
                              ELSE pending_media
                        /\ scanned_early' =
                              IF art.video_el /\ VidOf(art) \notin Pooled
                              THEN scanned_early \cup {tweet_id}
                              ELSE scanned_early
                   ELSE UNCHANGED <<tweets, seen_ids, new_this_pass, pending_media,
                                    scanned_early>>
                /\ UNCHANGED <<url_i, results, log, pc, articles, pend_i, passes, first_handle,
                               pooled_at_exit, scroll_steps, stall_count, expand_controls>>
    /\ UNCHANGED <<batch, author_handle, show_more_replies, video_pool, helpers>>

\* The end of a pass: the stall counter, and the stall limit's break.  The
\* loop then goes back to the query: nothing in it calls _scroll_down.
EndPass ==
    /\ pc = "node"
    /\ art_i > Len(articles)
    /\ stall_count' = StallAfterPass(stall_count, new_this_pass)
    /\ pc' = IF stall_count' >= STALL_LIMIT THEN "second" ELSE "pass"
    /\ pend_i' = 1
    /\ pooled_at_exit' = IF pc' = "second" THEN Pooled ELSE pooled_at_exit
    /\ UNCHANGED <<batch, url_i, results, log, scraper, tweets, seen_ids, pending_media,
                   after_thread_tail, new_this_pass, articles, art_i, passes, first_handle,
                   scanned_early, scroll_steps, expand_controls, helpers>>

\* The identifiers of the /status/ links inside the node.
LinkedIds(art) == (IF art.href.present THEN {art.href.id} ELSE {}) \cup art.links

RECURSIVE StartsWith(_, _)
\* The digits of id start with the digits of tid: "/status/<tid>" is a
\* substring of "/status/<id>".
StartsWith(id, tid) == id # 0 /\ (id = tid \/ StartsWith(id \div 10, tid))

\* a[href*='/status/<tid>'] matches inside the node.
Matches(art, tid) == \E id \in LinkedIds(art) : StartsWith(id, tid)

\* page.query_selector("article:has(a[href*='/status/<tid>'])") on the
\* materialized nodes dom: the positions of the matching nodes.
Located(dom, tid) == { i \in 1..Len(dom) : Matches(dom[i], tid) }

\* Mutant of Patched: the second pass resolves and drops the result.
PatchedNever(tws, idx, fixed) == tws

\* Mutant of Patched: the second pass puts the item it parsed in place of the
\* pending one.
PatchedWhole(tws, idx, fixed) ==
    IF fixed.found /\ ~Empty(fixed.tweet.media)
    THEN [tws EXCEPT ![idx] = fixed.tweet]
    ELSE tws

\* if fixed and fixed.get("media"): tweets[idx]["media"] = fixed["media"]
Patched(tws, idx, fixed) ==
    IF fixed.found /\ ~Empty(fixed.tweet.media)
    THEN [tws EXCEPT ![idx].media = fixed.tweet.media]
    ELSE tws

\* The first matching node, in document order.
FirstLocated(dom, tid) == dom[CHOOSE i \in Located(dom, tid) : \A j \in Located(dom, tid) : i <= j]

\* One iteration of the second pass, "for tid, idx in pending_media", when
\* dom is what is materialized.
SecondPassOn(dom) ==
    LET tid == pending_media[pend_i][1]
        idx == pending_media[pend_i][2]
        fixed == ParseTweet(FirstLocated(dom, tid), author_handle, video_pool, assigned_video_ids)
    IN  IF Located(dom, tid) = {}
        THEN /\ pend_i' = pend_i + 1
             /\ UNCHANGED <<url_i, results, log, pc, assigned_video_ids, tweets, seen_ids,
                            pending_media, stall_count, after_thread_tail,
                            new_this_pass, articles, art_i, history, expand_controls>>
        ELSE IF fixed.raised
        THEN /\ Caught(log) \/ Blocked
             /\ UNCHANGED assigned_video_ids
        ELSE /\ pend_i' = pend_i + 1
             /\ assigned_video_ids' = fixed.value.assigned
             /\ tweets' = Patched(tweets, idx, fixed.value)
             /\ UNCHANGED <<url_i, results, log, pc, seen_ids, pending_media,
                            stall_count, after_thread_tail, new_this_pass,
                            articles, art_i, history, expand_controls>>

SecondPassItem ==
    /\ pc = "second"
    /\ pend_i <= Len(pending_media)
    /\ \E dom \in Materialized(batch[url_i]) : SecondPassOn(dom)
    /\ UNCHANGED <<batch, author_handle, show_more_replies, video_pool, helpers>>

\* scrape's return value.
ThreadRecord(url, tws, author) ==
    [thread_url |-> url, tweet_count |-> Len(tws), username |-> author, tweets |-> tws]

\* The return of _extract_tweets and of scrape, and results.append(res).
Return ==
    /\ pc = "second"
    /\ pend_i > Len(pending_media)
    /\ results' = Append(results, ThreadRecord(url_i, tweets, author_handle))
    /\ url_i' = url_i + 1
    /\ pc' = "main"
    /\ expand_controls' = 0
    /\ FreshLocals
    /\ UNCHANGED <<batch, log, scraper, helpers>>

\* An awaited call on the render surface raises (a closed page, a timeout in a
\* query or an evaluation): the exception leaves scrape.
SurfaceRaises ==
    /\ pc \in {"pass", "node", "second"}
    /\ Caught(log)
    /\ UNCHANGED <<batch, scraper, helpers>>

\* The filter of _capture_video: the URL is a video URL of the video host,
\* answered 200 or 206, and its path holds an asset identifier.
Captured(resp) ==
    /\ resp.host = "video.twimg.com"
    /\ resp.status \in {200, 206}
    /\ resp.url.ext \in {".mp4", ".m3u8", ".mp4/aud"}
    /\ resp.vid # 0

\* Mutant of Appended: the URL goes in front of the list.
AppendedInFront(pool, resp) == [pool EXCEPT ![resp.vid] = <<resp.url>> \o @]

\* self.video_pool[m.group(1)].append(url)
Appended(pool, resp) == [pool EXCEPT ![resp.vid] = Append(@, resp.url)]

\* _capture_video(resp): the observer runs while the traversal is suspended.
CaptureVideo ==
    /\ pc \in {"pass", "node", "second"}
    /\ \E resp \in Responses :
          /\ resp.url.vid \in ShownVids(batch[url_i].nodes)   \* the page plays its own videos
          /\ resp.vid \in DOMAIN video_pool => Len(video_pool[resp.vid]) < MaxPool
          /\ video_pool' = IF Captured(resp) THEN Appended(video_pool, resp) ELSE video_pool
    /\ UNCHANGED <<batch, url_i, results, log, pc, author_handle, show_more_replies,
                   assigned_video_ids, locals, history, expand_controls, helpers>>

\* The end of main: the loop over args.urls is over.
Finish ==
    /\ pc = "main"
    /\ url_i > Len(batch)
    /\ pc' = "finished"
    /\ UNCHANGED <<batch, url_i, results, log, scraper, locals, history, expand_controls,
                   helpers>>

Next ==
    \/ ScrapeBegin
    \/ QueryArticles
    \/ ProcessArticle
    \/ EndPass
    \/ SecondPassItem
    \/ Return
    \/ SurfaceRaises
    \/ CaptureVideo
    \/ Finish

Spec == Init /\ [][Next]_vars

-----------------------------------------------------------------------------
(* The helpers, each run on its own on the inputs of a bounded set.        *)

\* A call of clean_count(raw).
CleanCount ==
    /\ pc = "clean_count"
    /\ count' = clean_count(raw)
    /\ pc' = "returned"
    /\ UNCHANGED <<batch, url_i, results, log, scraper, locals, history, expand_controls,
                   raw, text_el, text>>

CountInit ==
    /\ batch = << >>
    /\ pc = "clean_count"
    /\ Construction
    /\ raw \in Strs(MaxRaw) \cup {NoStr}
    /\ count = Ret(0)
    /\ text_el = NoEl
    /\ text = << >>

CountNext == CleanCount

CountSpec == CountInit /\ [][CountNext]_vars

\* The text nodes and the emoji images (with and without alt) under a
\* tweetText element.
TextRuns == { << >>, <<"a">>, <<" ">>, <<"b", " ">>, <<" ", "a">>, <<"\t", " ">> }
Leaves == { Dom("text", t, << >>) : t \in TextRuns }
          \cup { Dom("img", alt, << >>) : alt \in { <<"E">>, << >> } }

\* Elements with at most one leaf under them, and elements with an element
\* and a leaf under them.
Inner == { Dom("el", << >>, c) : c \in { << >> } \cup { <<l>> : l \in Leaves } }
Nested ==
    { Dom("el", << >>, << Dom("el", << >>, << Dom("text", <<"a">>, << >>) >>), l >>) :
        l \in { Dom("img", <<"E">>, << >>), Dom("text", <<" ", "a">>, << >>) } }

\* The tweetText elements: absent, or with at most MaxChildren children.
TextEls ==
    { NoEl } \cup { Dom("el", << >>, c) :
                      c \in UNION { [1..k -> Leaves \cup Inner \cup Nested] : k \in 0..MaxChildren } }

\* A call of _text_with_emojis(text_el).
TextWithEmojis ==
    /\ pc = "text_with_emojis"
    /\ text' = text_with_emojis(text_el)
    /\ pc' = "returned"
    /\ UNCHANGED <<batch, url_i, results, log, scraper, locals, history, expand_controls,
                   raw, count, text_el>>

TextInit ==
    /\ batch = << >>
    /\ pc = "text_with_emojis"
    /\ Construction
    /\ raw = NoStr
    /\ count = Ret(0)
    /\ text_el \in TextEls
    /\ text = << >>

TextNext == TextWithEmojis

TextSpec == TextInit /\ [][TextNext]_vars

-----------------------------------------------------------------------------
(* Properties.                                                             *)

\* The identifiers of a list of tweets.
Ids(tws) == [i \in 1..Len(tws) |-> tws[i].tweet_id]

\* No identifier occurs twice in a list of tweets.
Distinct(tws) == \A i, j \in 1..Len(tws) : tws[i].tweet_id = tws[j].tweet_id => i = j

\* The node of the current document an identifier belongs to.
ItemNode(tid) ==
    LET nodes == batch[url_i].nodes
    IN  nodes[CHOOSE i \in 1..Len(nodes) : nodes[i].href.present /\ nodes[i].href.id = tid]

\* C1: no two items of the list _extract_tweets builds and returns have the
\* same tweet_id, whatever nodes the passes present again.
C1_UniqueIds ==
    /\ Distinct(tweets)
    /\ \A k \in 1..Len(results) : Distinct(results[k].tweets)

\* C1 witness: a second or later pass has gone over two nodes that were all
\* admitted before, and admitted nothing.
C1_Witness ==
    /\ pc = "node"
    /\ passes >= 2
    /\ Len(articles) >= 2
    /\ art_i > Len(articles)
    /\ new_this_pass = 0
    /\ \A i \in 1..Len(articles) : TweetId(articles[i].href) \in seen_ids

\* C2: every admitted item comes from a node whose handle is that of the
\* first node scanned in this thread's traversal.
C2_ItemsOfFirstNodesAuthor ==
    \A i \in 1..Len(tweets) : Handle(ItemNode(tweets[i].tweet_id).href) = first_handle

\* The distinct identifiers of the nodes of the current document.
DocIds ==
    IF url_i \in DOMAIN batch
    THEN { batch[url_i].nodes[i].href.id : i \in DOMAIN batch[url_i].nodes }
    ELSE {}

\* C3: the traversal loop ends within STALL_LIMIT * (number of identifiers of
\* the document + 2) passes, and while it has not ended its next step can
\* always be taken.
C3_BoundedPasses ==
    /\ passes <= STALL_LIMIT * (Cardinality(DocIds) + 2)
    /\ pc \in {"pass", "node"} => ENABLED (QueryArticles \/ ProcessArticle \/ EndPass)

\* C3 witness: the loop has ended on the stall limit after an expansion click
\* reset the counter, items were admitted and a non-author node was met.
C3_Witness ==
    /\ pc = "second"
    /\ stall_count >= STALL_LIMIT
    /\ show_more_replies
    /\ tweets # << >>
    /\ after_thread_tail > 0
    /\ passes > STALL_LIMIT + 2

\* C4: once resolved, the author handle keeps its value.
C4_AuthorImmutable == [][author_handle # None => author_handle' = author_handle]_vars

\* C4 witness: a pass, after the handle was resolved, whose first node has another handle.
C4_Witness ==
    /\ pc = "node"
    /\ author_handle # None
    /\ art_i > 1
    /\ articles[1].href.present
    /\ Handle(articles[1].href) # author_handle

\* The step that ends a pass over materialized nodes.
EndPassStep == pc = "node" /\ art_i > Len(articles) /\ pc' \in {"pass", "second"}

\* The step of a pass that found no node.
EmptyPassStep == pc = "pass" /\ pc' \in {"pass", "second"} /\ articles' = articles /\ art_i' = art_i

\* C5: the stall counter increases only at the end of a pass that admitted
\* nothing (or in a pass with no node), and is zero at the end of a pass
\* that admitted an item; new_this_pass counts the items the pass admits.
C5_StallMonotone ==
    [][ /\ stall_count' > stall_count =>
              \/ EndPassStep /\ new_this_pass = 0
              \/ EmptyPassStep /\ tweets' = tweets
        /\ EndPassStep /\ new_this_pass > 0 => stall_count' = 0
        /\ pc = "pass" /\ pc' = "node" => new_this_pass' = 0 /\ tweets' = tweets
        /\ pc = "node" /\ pc' = "node" =>
              new_this_pass' - new_this_pass = Len(tweets') - Len(tweets) ]_vars

\* C5 witness: the first admitting pass has ended after passes that stalled.
C5_Witness ==
    /\ pc = "pass"
    /\ passes >= 2
    /\ new_this_pass > 0
    /\ Len(tweets) = new_this_pass
    /\ stall_count = 0

\* The identifiers of the author items of TailDoc(n), in document order.
TailIds(n) == [i \in 1..n |-> 10 + i]

\* C6: for a document of n author items and one trailing reply, all
\* materialized, the tail counter reaches TAIL_LIMIT only once the n author
\* items are admitted (the trailing node raises it), the loop ends with the
\* counter at the limit, and exactly the n author items are returned.
C6_TailScenario ==
    \A n \in 1..MaxTail :
        batch = << Doc(TailDoc(n), FALSE) >> =>
            /\ after_thread_tail >= TAIL_LIMIT => Ids(tweets) = TailIds(n)
            /\ pc = "second" => after_thread_tail >= TAIL_LIMIT /\ Ids(tweets) = TailIds(n)
            /\ \A k \in 1..Len(results) : Ids(results[k].tweets) = TailIds(n)

\* C6 witness: the run over 5 author items and a trailing reply is over and
\* returned a record.
C6_Witness ==
    /\ pc = "finished"
    /\ batch = << Doc(TailDoc(5), FALSE) >>
    /\ Len(results) = 1
    /\ results[1].tweet_count = 5

\* The asset a video URL name belongs to.
VidOfName(name) == (CHOOSE u \in VideoUrls : u.name = name).vid

\* The assets whose variants an item carries.
CarriedVids(t) ==
    IF "video" \in DOMAIN t.media
    THEN { VidOfName(t.media.video.variants[i].url) : i \in DOMAIN t.media.video.variants }
    ELSE {}

\* Every item of the run so far: those of the returned records and those of
\* the traversal under way.
RECURSIVE AllTweets(_)
AllTweets(k) == IF k = 0 THEN tweets ELSE results[k].tweets \o AllTweets(k - 1)

\* C7: no asset has its variants carried by two items; of two items whose
\* nodes show the same asset at most one has video media.
C7_ExclusiveAssignment ==
    LET all == AllTweets(Len(results))
    IN  /\ \A i, j \in 1..Len(all) :
              i # j => CarriedVids(all[i]) \cap CarriedVids(all[j]) = {}
        /\ \A i, j \in 1..Len(tweets) :
              /\ i # j
              /\ VidOf(ItemNode(tweets[i].tweet_id)) # 0
              /\ VidOf(ItemNode(tweets[i].tweet_id)) = VidOf(ItemNode(tweets[j].tweet_id))
              => ~("video" \in DOMAIN tweets[i].media /\ "video" \in DOMAIN tweets[j].media)

\* C7 witness: both items that show asset 1 are admitted, the second pass is
\* over, and one of them carries the asset.
C7_Witness ==
    /\ pc = "second"
    /\ pend_i > Len(pending_media)
    /\ Len(tweets) = 2
    /\ \E i \in 1..2 : CarriedVids(tweets[i]) = {1}
    /\ \A i \in 1..2 : ItemNode(tweets[i].tweet_id).poster = 1

\* The second pass is over.
SecondPassOver == pc = "second" /\ pend_i > Len(pending_media)

Resolvable(pool_list) ==
    /\ \E i \in DOMAIN pool_list :
          \/ IsDirect(pool_list[i])
          \/ IsManifest(pool_list[i]) /\ pool_list[i].get # "exc"
    /\ \A i \in DOMAIN pool_list :
          /\ IsDirect(pool_list[i]) => pool_list[i].head # "exc"
          /\ IsManifest(pool_list[i]) /\ pool_list[i].get = "404" => pool_list[i].head # "exc"

LastVariants(tws) ==
    IF "video" \in DOMAIN tws[Len(tws)].media
    THEN { tws[Len(tws)].media.video.variants[i] : i \in DOMAIN tws[Len(tws)].media.video.variants }
    ELSE {}

\* C9: when an item is admitted from a node whose pool entry holds a manifest
\* whose fetch raises, its variants hold the one of every direct-file URL of
\* the entry and those of every other manifest of the entry.
C9_ManifestFailureIsolated ==
    [][ /\ pc = "node"
        /\ art_i <= Len(articles)
        /\ Len(tweets') = Len(tweets) + 1
        /\ articles[art_i].video_el
        /\ Unassigned(VidOf(articles[art_i]), assigned_video_ids)
        /\ \E i \in DOMAIN video_pool[VidOf(articles[art_i])] :
              LET u == video_pool[VidOf(articles[art_i])][i]
              IN  IsManifest(u) /\ u.get = "exc"
        => \A i \in DOMAIN video_pool[VidOf(articles[art_i])] :
              LET u == video_pool[VidOf(articles[art_i])][i]
              IN  /\ IsDirect(u) => \E v \in LastVariants(tweets') : v.url = u.name
                  /\ IsManifest(u) /\ u.get = "200" =>
                        \A k \in DOMAIN u.streams :
                            Variant(u.streams[k].bw, u.streams[k].res, u) \in LastVariants(tweets') ]_vars

\* C9 witness: an item resolved live carries the variant of the direct file
\* that sits in the pool behind a manifest whose fetch raises.
C9_Witness ==
    /\ pc = "node"
    /\ pending_media = << >>
    /\ Len(tweets) = 1
    /\ video_pool[1] = << M_DEAD, P_OK >>
    /\ \E v \in LastVariants(tweets) : v.url = P_OK.name

\* What main printed about URL i.
Printed(what, i) == \E k \in DOMAIN log : log[k] = <<what, i>>

\* The "Scraping" lines of the log, in order.
Attempts == SelectSeq(log, LAMBDA e : e[1] = "Scraping")

\* The URLs with no "Error scraping" line, in order.
RECURSIVE Succeeded(_)
Succeeded(i) ==
    IF i = 0 THEN << >>
    ELSE Succeeded(i - 1) \o (IF Printed("Error scraping", i) THEN << >> ELSE <<i>>)

\* C10: when main is through the batch, every URL was attempted, in order,
\* and results holds one record for each URL that raised no error, in order,
\* and nothing else.
C10_BatchIsolation ==
    pc = "finished" =>
        /\ Attempts = [i \in 1..Len(batch) |-> <<"Scraping", i>>]
        /\ [k \in 1..Len(results) |-> results[k].thread_url] = Succeeded(Len(batch))

\* C10 witness: the first URL of a batch of two failed and the second gave a record.
C10_Witness ==
    /\ pc = "finished"
    /\ Len(batch) = 2
    /\ Printed("Error scraping", 1)
    /\ Len(results) = 1
    /\ results[1].thread_url = 2

\* The factor of the suffix of a token, and the token without its suffix.
Unit(s) == IF EndsWith(s, "K") THEN 1000 ELSE IF EndsWith(s, "M") THEN 1000000 ELSE 1
Mantissa(s) == IF Unit(s) = 1 THEN s ELSE SubSeq(s, 1, Len(s) - 1)

\* The positions of "." in a str, the part before the first one and the part after it.
Points(m) == { i \in DOMAIN m : m[i] = "." }
IntPart(m) == IF Points(m) = {} THEN m ELSE SubSeq(m, 1, (CHOOSE i \in Points(m) : TRUE) - 1)
FracPart(m) == IF Points(m) = {} THEN << >> ELSE SubSeq(m, (CHOOSE i \in Points(m) : TRUE) + 1, Len(m))

\* A numeric token: digits with thousands separators, then maybe a decimal
\* part and a K or M suffix.
IsToken(s) ==
    /\ s # NoStr
    /\ Cardinality(Points(Mantissa(s))) <= 1
    /\ IntPart(Mantissa(s)) # << >>
    /\ IntPart(Mantissa(s))[1] \in Digits
    /\ \A i \in DOMAIN IntPart(Mantissa(s)) : IntPart(Mantissa(s))[i] \in Digits \cup {","}
    /\ Points(Mantissa(s)) # {} => Unit(s) # 1 /\ IsDigits(FracPart(Mantissa(s)))

RECURSIVE Pow10(_)
Pow10(n) == IF n = 0 THEN 1 ELSE 10 * Pow10(n - 1)

\* The integer a numeric token stands for.
TokenValue(s) ==
    LET whole == DecimalValue(Replace(IntPart(Mantissa(s)), ","))
        frac == FracPart(Mantissa(s))
    IN  ((whole * Pow10(Len(frac)) + DecimalValue(frac)) * Unit(s)) \div Pow10(Len(frac))

\* An input that is no number at all: absent, blank, or with a character
\* that belongs to no number.
Unparseable(s) == s = NoStr \/ Strip(s) = << >> \/ \E i \in DOMAIN s : s[i] = "x"

\* C11: clean_count returns, it never raises; for a numeric token it returns
\* the integer the token stands for (separators dropped, K: the decimal
\* value times 1,000, M: times 1,000,000); for an absent, blank or
\* non-numeric input it returns 0.
C11_CleanCountParses ==
    pc = "returned" =>
        /\ ~count.raised
        /\ IsToken(raw) => count.value = TokenValue(raw)
        /\ Unparseable(raw) => count.value = 0

\* The counters of an item and the part of its node each is read from.
CounterFields == {"likes", "retweets", "replies", "views"}

\* What the node shows for a counter of an item: a str, NoStr when absent.
Shown(art, field) ==
    CASE field = "likes" -> RawCount(art.like)
      [] field = "retweets" -> RawCount(art.retweet)
      [] field = "replies" -> RawCount(art.reply)
      [] field = "views" -> RawViews(art.views)

\* C12: in every admitted item each of the four counts is a non-negative
\* integer, and it is 0 when the node shows no such counter or one that is
\* no number.
C12_CountsAreNaturals ==
    \A i \in 1..Len(tweets) : \A f \in CounterFields :
        /\ tweets[i][f].type = "int"
        /\ tweets[i][f].value >= 0
        /\ Unparseable(Shown(ItemNode(tweets[i].tweet_id), f)) => tweets[i][f].value = 0

\* The URLs of a pool entry _media requests.
Requested(pool_list) == { pool_list[i] : i \in { j \in DOMAIN pool_list :
                                                    IsManifest(pool_list[j]) \/ IsDirect(pool_list[j]) } }

\* _media(art) would make a request that errors or times out.
FetchFails(art) ==
    /\ art.href.present
    /\ TweetId(art.href) # 0
    /\ ~NotAuthor(art.href, author_handle)
    /\ art.video_el
    /\ Unassigned(VidOf(art), assigned_video_ids)
    /\ \E u \in Requested(video_pool[VidOf(art)]) : fetch_video_variants(u).raised

\* C13: when the parse of an unseen node of the author makes a request that
\* fails, the item is admitted all the same, after the items admitted before
\* it, with the variants of the URLs of its pool entry whose request
\* answered; when it happens in the second pass, the traversal goes on with
\* the items it had.
C13_FetchFailureDegrades ==
    [][ /\ ( /\ pc = "node"
             /\ art_i <= Len(articles)
             /\ ProcessArticle
             /\ ~Seen(TweetId(articles[art_i].href), seen_ids)
             /\ FetchFails(articles[art_i]) )
           => /\ pc' = "node"
              /\ Len(tweets') = Len(tweets) + 1
              /\ SubSeq(tweets', 1, Len(tweets)) = tweets
              /\ \A u \in Requested(video_pool[VidOf(articles[art_i])]) :
                     ~fetch_video_variants(u).raised =>
                        \A k \in DOMAIN fetch_video_variants(u).value :
                            fetch_video_variants(u).value[k] \in LastVariants(tweets')
        /\ pc = "second" /\ pend_i <= Len(pending_media) =>
              \A dom \in Materialized(batch[url_i]) :
                  /\ SecondPassOn(dom)
                  /\ Located(dom, pending_media[pend_i][1]) # {}
                  /\ FetchFails(FirstLocated(dom, pending_media[pend_i][1]))
                  => /\ pc' = "second"
                     /\ Ids(tweets') = Ids(tweets) ]_vars

\* A variant with no resolved data: neither a bitrate nor a resolution.
Placeholder(v) == v.bitrate = -1 /\ v.resolution = None

\* C14: an item has a video entry only with at least one variant, none of
\* them a placeholder without bitrate and resolution.
C14_VideoOnlyIfResolved ==
    LET all == AllTweets(Len(results))
    IN  \A i \in 1..Len(all) :
            "video" \in DOMAIN all[i].media =>
                /\ all[i].media.video.variants # << >>
                /\ \A k \in DOMAIN all[i].media.video.variants :
                       ~Placeholder(all[i].media.video.variants[k])

\* No handle can be taken from the permalink: there is none, or nothing
\* precedes its "status" segment.
NoHandle(href) == ~href.present \/ href.pre = << >>

\* The first node the traversal of document d meets has no permalink or no
\* handle (d is not virtualized: its first node is the first one materialized).
Fatal(d) == ~d.virtual /\ NoHandle(d.nodes[1].href)

\* A fatal thread has no item at any time and a record of zero items at most.
FatalHasNoItem ==
    /\ url_i \in DOMAIN batch /\ Fatal(batch[url_i]) => tweets = << >>
    /\ \A k \in DOMAIN results :
           Fatal(batch[results[k].thread_url]) => results[k].tweet_count = 0

\* A step of a fatal thread leaves the session state alone.
FatalLeavesNoTrace ==
    url_i \in DOMAIN batch /\ Fatal(batch[url_i]) =>
        /\ author_handle' = author_handle
        /\ show_more_replies' = show_more_replies
        /\ assigned_video_ids' = assigned_video_ids

\* C15: a thread whose first materialized node has no permalink, or a
\* permalink with no handle, has no item at any time and gets a record of
\* zero items at most, and its traversal leaves the author handle, the
\* expansion flag and the assigned identifiers as the next URL would have
\* found them without it.
C15_FatalFirstNode == []FatalHasNoItem /\ [][FatalLeavesNoTrace]_vars

\* C16: no suspension point holds the run for ever: short of its end, the
\* run can always take a step.
C16_NoEndlessWait == pc = "finished" \/ ENABLED Next

\* The position in the current document of the node an identifier belongs to.
DocPos(tid) ==
    LET nodes == batch[url_i].nodes
    IN  CHOOSE i \in 1..Len(nodes) : nodes[i].href.present /\ nodes[i].href.id = tid

\* The items admitted by the pass under way (or the last one) are the last
\* new_this_pass items of the list, in the order of their nodes in the document.
InPassOrder ==
    pc \in {"node", "pass", "second"} =>
        \A i, j \in (Len(tweets) - new_this_pass + 1)..Len(tweets) :
            i < j => DocPos(tweets[i].tweet_id) < DocPos(tweets[j].tweet_id)

\* A step of a traversal keeps the items it had, in their order, at the head
\* of the list; the record that is returned has them in that order, and the
\* records returned before are kept.
AppendOnly ==
    /\ pc # "main" /\ pc' # "main" =>
           /\ Len(tweets') >= Len(tweets)
           /\ Ids(SubSeq(tweets', 1, Len(tweets))) = Ids(tweets)
    /\ Len(results') >= Len(results)
    /\ SubSeq(results', 1, Len(results)) = results
    /\ Len(results') > Len(results) =>
           /\ Len(results') = Len(results) + 1
           /\ Ids(results'[Len(results')].tweets) = Ids(tweets)

RECURSIVE LeavesOf(_)
\* The text nodes and images under a list of nodes, in document order.
LeavesOf(nodes) ==
    IF nodes = << >> THEN << >>
    ELSE (IF Head(nodes).kind = "el" THEN LeavesOf(Head(nodes).children) ELSE <<Head(nodes)>>)
         \o LeavesOf(Tail(nodes))

RECURSIVE Concat(_)
\* The text runs and alt texts of a list of leaves, one after the other.
Concat(leaves) == IF leaves = << >> THEN << >> ELSE Head(leaves).txt \o Concat(Tail(leaves))

\* The characters of s that are not whitespace, and the position in s of the k-th of them.
NonWs(s) == SelectSeq(s, LAMBDA ch : ch \notin Whitespace)
Pos(s, k) ==
    CHOOSE i \in DOMAIN s :
        s[i] \notin Whitespace /\ Cardinality({ j \in 1..i : s[j] \notin Whitespace }) = k

\* r is s with every run of whitespace made one space and none left at the ends.
Collapsed(r, s) ==
    /\ NonWs(r) = NonWs(s)
    /\ \A i \in DOMAIN r :
           r[i] \in Whitespace =>
               r[i] = " " /\ 1 < i /\ i < Len(r) /\ r[i + 1] \notin Whitespace
    /\ \A k \in 1..(Len(NonWs(s)) - 1) :
           (Pos(r, k + 1) > Pos(r, k) + 1) <=> (Pos(s, k + 1) > Pos(s, k) + 1)

\* The text node "b ", the emoji image "E" and the text node " a".
GreatTalk ==
    Dom("el", << >>, << Dom("text", <<"b", " ">>, << >>), Dom("img", <<"E">>, << >>),
                       Dom("text", <<" ", "a">>, << >>) >>)

\* C18: the text extracted from a tweetText element is the text runs and
\* the alt texts of its text nodes and images, nested elements included, in
\* document order, with every run of whitespace made one space and none at
\* the ends; "b ", emoji, " a" gives "b <emoji> a".
C18_TextWithEmojis ==
    pc = "returned" =>
        /\ text_el # NoEl => Collapsed(text, Concat(LeavesOf(text_el.children)))
        /\ text_el = GreatTalk => text = <<"b", " ", "E", " ", "a">>

\* C18 witness: a text, an element nested in an element with an emoji after
\* it, and a text gave "b a<emoji> a".
C18_Witness ==
    /\ pc = "returned"
    /\ Len(text_el.children) = 3
    /\ text_el.children[2] \in Nested
    /\ text = <<"b", " ", "a", "E", " ", "a">>

\* An item of the author is admitted and the last unseen node met since is
\* not the author's: the tail counter is at its limit.
TailReached == tweets # << >> /\ after_thread_tail >= TAIL_LIMIT

\* Once the tail is reached the traversal begins no pass and admits no item.
TailStopsScan ==
    TailReached /\ pc \in {"node", "pass"} /\ pc' # "main" =>
        /\ passes' = passes
        /\ Len(tweets') = Len(tweets)

\* C19: once an item of the author is admitted, meeting an unseen node that
\* is not the author's ends the scan at once: no further pass is begun and
\* no further item is admitted.
C19_TailEndsScan == [][TailStopsScan]_vars

\* C20: the traversal of every URL starts with no author handle, the
\* expansion flag down and no assigned identifier, and the handle it works
\* with is the one of the first node scanned in that URL's own document.
C20_SessionPerUrl ==
    /\ pc = "pass" /\ passes = 0 =>
           /\ author_handle = None
           /\ ~show_more_replies
           /\ assigned_video_ids = {}
    /\ pc \in {"pass", "node", "second"} /\ author_handle # None /\ first_handle # None =>
           author_handle = first_handle

\* A step that adds an identifier to assigned_video_ids leaves an item of the
\* thread with a variant of that asset.
AssignedWithVariant ==
    \A v \in assigned_video_ids' \ assigned_video_ids :
        \E i \in DOMAIN tweets' : v \in CarriedVids(tweets'[i])

\* No item of the run carries a variant of asset v.
Unattached(v) ==
    \A i \in DOMAIN AllTweets(Len(results)) : v \notin CarriedVids(AllTweets(Len(results))[i])

\* A second-pass iteration for a pending item that finds the item's own node,
\* while no item carries the asset the node shows and its pool entry is
\* resolvable, leaves the item with video variants.
RetriedInSecondPass ==
    pc = "second" /\ pend_i <= Len(pending_media) =>
        LET tid == pending_media[pend_i][1]
            idx == pending_media[pend_i][2]
            own == ItemNode(tid)
        IN  \A dom \in Materialized(batch[url_i]) :
                /\ SecondPassOn(dom)
                /\ Located(dom, tid) # {}
                /\ FirstLocated(dom, tid) = own
                /\ own.video_el
                /\ Unattached(VidOf(own))
                /\ Resolvable(video_pool[VidOf(own)])
                => CarriedVids(tweets'[idx]) # {}

\* C21: an identifier enters the assigned set only in a step that attaches a
\* variant of the asset to an item, and an item whose live resolution gave no
\* variant is resolved by the second pass once the pool entry is usable.
C21_AssignedOnlyIfAttached == [][AssignedWithVariant]_vars /\ [][RetriedInSecondPass]_vars

\* A full scan pass ends and the traversal goes on.
PassGoesOn == pc = "node" /\ EndPass /\ pc' = "pass"

\* C22: a full scan pass after which the traversal goes on is followed,
\* before the next pass, by at least one and at most 15 incremental scrolls.
C22_ScrollBetweenPasses ==
    [][PassGoesOn => /\ scroll_steps' > scroll_steps
                     /\ scroll_steps' <= scroll_steps + 15]_vars

\* A pass in which a button is expanded.
Expanding == pc = "pass" /\ QueryArticles /\ expand_controls' < expand_controls

\* A pass over materialized nodes, on a page that still shows buttons after
\* one of them was expanded in this traversal.
ShowsMore ==
    /\ pc = "pass" /\ QueryArticles /\ pc' = "node"
    /\ expand_controls > 0
    /\ expand_controls < batch[url_i].controls

\* C23: the pass that expands a button expands every button the page shows,
\* resets the stall counter and goes back to the query before it processes a
\* node; a pass on a page that shows buttons after an earlier expansion
\* expands them.
C23_ExpandsEveryControl ==
    /\ [][Expanding => expand_controls' = 0 /\ stall_count' = 0 /\ pc' = "pass"]_vars
    /\ [][ShowsMore => expand_controls' < expand_controls]_vars

\* The list of every identifier is kept as the front of its list after the
\* step, and a step that changes the pool adds one URL and is a step of the
\* observer alone.
PoolGrowsAtEnd ==
    /\ DOMAIN video_pool \subseteq DOMAIN video_pool'
    /\ \A v \in DOMAIN video_pool :
          /\ Len(video_pool'[v]) >= Len(video_pool[v])
          /\ SubSeq(video_pool'[v], 1, Len(video_pool[v])) = video_pool[v]
    /\ video_pool' # video_pool =>
          /\ \E v \in DOMAIN video_pool :
                /\ Len(video_pool'[v]) = Len(video_pool[v]) + 1
                /\ \A w \in DOMAIN video_pool \ {v} : video_pool'[w] = video_pool[w]
          /\ UNCHANGED <<pc, url_i, results, assigned_video_ids, locals>>

\* The resolver and the second pass leave the pool as it is.
ReadsLeavePool == ProcessArticle \/ SecondPassItem => video_pool' = video_pool

\* While the page of the traversal plays asset v and the model's bound on
\* the list is not reached, a URL the list already holds can be observed
\* and appended again.
DuplicatesKept ==
    \A v \in DOMAIN video_pool : \A i \in DOMAIN video_pool[v] :
        /\ pc \in {"pass", "node", "second"}
        /\ v \in ShownVids(batch[url_i].nodes)
        /\ Len(video_pool[v]) < MaxPool
        => ENABLED (CaptureVideo /\ video_pool' = [video_pool EXCEPT ![v] = Append(@, video_pool[v][i])])

\* C24: the pool is append-only: every list only grows at its end, by the
\* observer, a URL observed again is appended again, and the reads of the
\* resolver and of the second pass change nothing.
C24_PoolAppendOnly == []DuplicatesKept /\ [][PoolGrowsAtEnd /\ ReadsLeavePool]_vars

\* C24 witness: the list of asset 1 holds the same URL twice, appended after
\* the resolver read the list for an item that carries the asset, and the
\* second pass is over.
C24_Witness ==
    /\ SecondPassOver
    /\ video_pool[1] = << P_OK, P_OK >>
    /\ Len(tweets) = 2
    /\ CarriedVids(tweets[1]) = {1}
    /\ Len(tweets[1].media.video.variants) = 1

\* The fields of an item other than its media.
ItemFields == {"tweet_id", "datetime", "tweet", "likes", "retweets", "replies", "views"}

\* An iteration of the second pass that returns keeps the length of the
\* list, every field but media of every item, and the media of every item
\* but the pending one it is run for, whose media was empty.
SecondPassFrame ==
    pc = "second" /\ SecondPassItem /\ pc' = "second" =>
        LET idx == pending_media[pend_i][2]
        IN  /\ Len(tweets') = Len(tweets)
            /\ Empty(tweets[idx].media)
            /\ \A i \in DOMAIN tweets :
                  /\ \A f \in ItemFields : tweets'[i][f] = tweets[i][f]
                  /\ i # idx => tweets'[i].media = tweets[i].media

\* An iteration run while no materialized node links the pending identifier
\* returns, prints nothing and leaves the list as it is.
EvictedKeepsEmpty ==
    pc = "second" /\ pend_i <= Len(pending_media) =>
        \A dom \in Materialized(batch[url_i]) :
            SecondPassOn(dom) /\ Located(dom, pending_media[pend_i][1]) = {}
            => pc' = "second" /\ tweets' = tweets /\ log' = log

OwnMedia(tid) ==
    Media(ItemNode(tid), video_pool, assigned_video_ids)

\* An iteration of the second pass that writes into the pending item writes
\* the media resolved from the item's own node.
PatchedFromOwnNode ==
    pc = "second" /\ SecondPassItem /\ pc' = "second" /\ tweets' # tweets =>
        LET tid == pending_media[pend_i][1]
            idx == pending_media[pend_i][2]
        IN  /\ ~OwnMedia(tid).raised
            /\ tweets'[idx].media = OwnMedia(tid).value.media

\* C26: the media the second pass writes into a pending item is the media of
\* the node whose own permalink has the item's identifier, not of another
\* node that links the identifier or whose identifier starts with it.
C26_MediaOfOwnNode == [][PatchedFromOwnNode]_vars

====
